--------------------------- MODULE Spec2Model ---------------------------
(***************************************************************************)
(* A model of src/apis/mistral_client.py: the MistralGitHubClient session  *)
(* (construction, token validation, message sanitization, chat calls,      *)
(* health check, demonstration, interactive mode) and main().              *)
(*                                                                         *)
(* Python strings are sequences of one-character strings.  A Python value  *)
(* that may also be None or a non-string is a record tagged with its type. *)
(***************************************************************************)
EXTENDS Integers, Sequences, FiniteSets, TLC

VARIABLES
    MISTRAL_AVAILABLE,  \* module global set by the guarded import
    environ,            \* os.environ.get('GITHUB_TOKEN'): a str value or None
    self,               \* the instance's attributes (its __dict__)
    pc,                 \* where the caller is: "start", "constructed" (it holds the
                        \* object), "failed", inside interactive_mode or main
    call,               \* the operation invoked last, with its arguments
    ret,                \* what it returned (None when it raised)
    raised,             \* the exception it raised (NoException when it returned)
    ctor_call_count,    \* calls of MistralClient(...)
    ctor_call_args,     \* the api_key of the last such call
    chat_call_count,    \* calls of client.chat(...)
    chat_call_args,     \* the model and messages of the last such call
    log,                \* the log records the last operation emitted
    stdout,             \* what the last operation printed, one record a print
    sent                \* the send_chat_message invocations the last operation made

vars == << MISTRAL_AVAILABLE, environ, self, pc, call, ret, raised,
           ctor_call_count, ctor_call_args, chat_call_count, chat_call_args, log,
           stdout, sent >>

-----------------------------------------------------------------------------
(* Python values *)

None == [t |-> "NoneType"]
PyStr(s) == [t |-> "str", v |-> s]
PyInt(n) == [t |-> "int", v |-> n]
PyBool(b) == [t |-> "bool", v |-> b]

\* isinstance(x, str)
IsStr(x) == x.t = "str"

\* bool(x): None, '', 0 and False are falsy
Truthy(x) ==
    CASE x.t = "NoneType" -> FALSE
      [] x.t = "str" -> Len(x.v) > 0
      [] x.t = "int" -> x.v # 0
      [] x.t = "bool" -> x.v

\* a or b
PyOr(a, b) == IF Truthy(a) THEN a ELSE b

\* c * n
Rep(c, n) == << >> \o [i \in 1..n |-> c]

\* s.startswith(prefix)
StartsWith(s, prefix) ==
    /\ Len(prefix) <= Len(s)
    /\ \A i \in 1..Len(prefix) : s[i] = prefix[i]

\* needle in s
Contains(s, needle) ==
    \E i \in 0..(Len(s) - Len(needle)) :
        \A j \in 1..Len(needle) : s[i + j] = needle[j]

\* exceptions: the class, str(e), and the __cause__ set by "raise ... from e"
NoException == [type |-> "None"]
Exc(type, msg) == [type |-> type, msg |-> msg]
ExcFrom(type, msg, cause) == [type |-> type, msg |-> msg, cause |-> cause]

-----------------------------------------------------------------------------
(* String literals of the program and of its tests *)

S_import_error ==
    << "m", "i", "s", "t", "r", "a", "l", "a", "i", " ", "l", "i", "b", "r", "a", "r", "y",
       " ", "n", "o", "t", " ", "f", "o", "u", "n", "d", ".", " ", "P", "l", "e", "a", "s",
       "e", " ", "i", "n", "s", "t", "a", "l", "l", " ", "i", "t", " ", "u", "s", "i", "n",
       "g", ":", " ", "p", "i", "p", " ", "i", "n", "s", "t", "a", "l", "l", " ", "m", "i",
       "s", "t", "r", "a", "l", "a", "i" >>

S_token_required ==
    << "G", "i", "t", "H", "u", "b", " ", "t", "o", "k", "e", "n", " ", "i", "s", " ", "r",
       "e", "q", "u", "i", "r", "e", "d", ".", " ", "S", "e", "t", " ", "G", "I", "T", "H",
       "U", "B", "_", "T", "O", "K", "E", "N", " ", "e", "n", "v", "i", "r", "o", "n", "m",
       "e", "n", "t", " ", "v", "a", "r", "i", "a", "b", "l", "e", " ", "o", "r", " ", "p",
       "a", "s", "s", " ", "i", "t", " ", "d", "i", "r", "e", "c", "t", "l", "y", "." >>

S_invalid_format ==
    << "I", "n", "v", "a", "l", "i", "d", " ", "G", "i", "t", "H", "u", "b", " ", "t", "o",
       "k", "e", "n", " ", "f", "o", "r", "m", "a", "t", ".", " ", "T", "o", "k", "e", "n",
       " ", "s", "h", "o", "u", "l", "d", " ", "s", "t", "a", "r", "t", " ", "w", "i", "t",
       "h", " ", "'", "g", "h", "p", "_", "'", ",", " ", "'", "g", "h", "o", "_", "'", ",",
       " ", "'", "g", "h", "u", "_", "'", ",", " ", "o", "r", " ", "'", "g", "h", "s", "_", "'" >>

S_unable_init ==
    << "U", "n", "a", "b", "l", "e", " ", "t", "o", " ", "i", "n", "i", "t", "i", "a", "l",
       "i", "z", "e", " ", "M", "i", "s", "t", "r", "a", "l", " ", "c", "l", "i", "e", "n",
       "t", ":", " " >>

S_connection_failed ==
    << "C", "o", "n", "n", "e", "c", "t", "i", "o", "n", " ", "f", "a", "i", "l", "e", "d" >>

S_valid_token ==
    << "g", "h", "p", "_", "1", "2", "3", "4", "5", "6", "7", "8", "9", "0", "a", "b", "c",
       "d", "e", "f", "1", "2", "3", "4", "5", "6", "7", "8", "9", "0", "a", "b", "c", "d",
       "e", "f", "1", "2", "3", "4", "5", "6", "7", "8" >>

S_env_token ==
    << "g", "h", "p", "_", "e", "n", "v", "_", "t", "o", "k", "e", "n", "1", "2", "3", "4",
       "5", "6", "7", "8", "9", "0", "1", "2", "3", "4", "5", "6", "7", "8", "9", "0", "1",
       "2", "3", "4", "5", "6", "7", "8", "9", "0" >>

S_invalid_token ==
    << "i", "n", "v", "a", "l", "i", "d", "_", "t", "o", "k", "e", "n" >>

S_not_connected ==
    << "N", "o", "t", " ", "c", "o", "n", "n", "e", "c", "t", "e", "d", " ", "t", "o", " ",
       "M", "i", "s", "t", "r", "a", "l", " ", "A", "I", ".", " ", "P", "l", "e", "a", "s",
       "e", " ", "r", "e", "i", "n", "i", "t", "i", "a", "l", "i", "z", "e", " ", "t", "h",
       "e", " ", "c", "l", "i", "e", "n", "t", "." >>

S_empty_message ==
    << "M", "e", "s", "s", "a", "g", "e", " ", "c", "a", "n", "n", "o", "t", " ", "b", "e",
       " ", "e", "m", "p", "t", "y" >>

S_too_long ==
    << "M", "e", "s", "s", "a", "g", "e", " ", "t", "o", "o", " ", "l", "o", "n", "g", ".",
       " ", "P", "l", "e", "a", "s", "e", " ", "l", "i", "m", "i", "t", " ", "t", "o", " ",
       "1", "0", ",", "0", "0", "0", " ", "c", "h", "a", "r", "a", "c", "t", "e", "r", "s", "." >>

S_error_prefix ==
    << "E", "r", "r", "o", "r", " ", "c", "o", "m", "m", "u", "n", "i", "c", "a", "t", "i",
       "n", "g", " ", "w", "i", "t", "h", " ", "M", "i", "s", "t", "r", "a", "l", " ", "A",
       "I", ":", " " >>

S_sending_prefix ==
    << "S", "e", "n", "d", "i", "n", "g", " ", "m", "e", "s", "s", "a", "g", "e", " ", "t",
       "o", " ", "m", "o", "d", "e", "l", " ", "'" >>

S_sending_sep ==
    << "'", ":", " " >>

S_ellipsis ==
    << ".", ".", "." >>

S_received ==
    << "S", "u", "c", "c", "e", "s", "s", "f", "u", "l", "l", "y", " ", "r", "e", "c", "e",
       "i", "v", "e", "d", " ", "r", "e", "s", "p", "o", "n", "s", "e", " ", "f", "r", "o",
       "m", " ", "M", "i", "s", "t", "r", "a", "l", " ", "A", "I" >>

S_mistral_tiny ==
    << "m", "i", "s", "t", "r", "a", "l", "-", "t", "i", "n", "y" >>

S_mistral_small ==
    << "m", "i", "s", "t", "r", "a", "l", "-", "s", "m", "a", "l", "l" >>

S_mistral_medium ==
    << "m", "i", "s", "t", "r", "a", "l", "-", "m", "e", "d", "i", "u", "m" >>

S_mistral_large ==
    << "m", "i", "s", "t", "r", "a", "l", "-", "l", "a", "r", "g", "e" >>

S_api_error ==
    << "A", "P", "I", " ", "E", "r", "r", "o", "r" >>

S_index_error ==
    << "l", "i", "s", "t", " ", "i", "n", "d", "e", "x", " ", "o", "u", "t", " ", "o", "f",
       " ", "r", "a", "n", "g", "e" >>

S_test_response ==
    << "T", "e", "s", "t", " ", "r", "e", "s", "p", "o", "n", "s", "e", " ", "f", "r", "o",
       "m", " ", "A", "I" >>

S_test_message ==
    << "T", "e", "s", "t", " ", "m", "e", "s", "s", "a", "g", "e" >>

S_hello ==
    << "H", "e", "l", "l", "o" >>

S_redacted_token ==
    << "[", "R", "E", "D", "A", "C", "T", "E", "D", "_", "T", "O", "K", "E", "N", "]" >>

S_redacted_api_key ==
    << "[", "R", "E", "D", "A", "C", "T", "E", "D", "_", "A", "P", "I", "_", "K", "E", "Y", "]" >>

-----------------------------------------------------------------------------
(* _validate_token_format *)

MinTokenLength == 10

valid_prefixes ==
    << <<"g", "h", "p", "_">>, <<"g", "h", "o", "_">>,
       <<"g", "h", "u", "_">>, <<"g", "h", "s", "_">> >>

\* mutant: the length test written >= instead of >
mutant_validate_token_format_ge(token) ==
    IF ~Truthy(token) \/ ~IsStr(token)
    THEN FALSE
    ELSE /\ \E k \in 1..Len(valid_prefixes) : StartsWith(token.v, valid_prefixes[k])
         /\ Len(token.v) >= MinTokenLength

_validate_token_format(token) ==
    IF ~Truthy(token) \/ ~IsStr(token)
    THEN FALSE
    ELSE /\ \E k \in 1..Len(valid_prefixes) : StartsWith(token.v, valid_prefixes[k])
         /\ Len(token.v) > MinTokenLength

-----------------------------------------------------------------------------
(* __init__ *)

NewObject == [class |-> "MistralGitHubClient"]

SetAttr(obj, a, v) == [x \in DOMAIN obj \cup {a} |-> IF x = a THEN v ELSE obj[x]]

HasAttr(obj, a) == a \in DOMAIN obj

ImportErrorExc == Exc("ImportError", S_import_error)
MissingCredential == Exc("ValueError", S_token_required)
InvalidCredentialFormat == Exc("ValueError", S_invalid_format)
ConnectionFailure(e) == ExcFrom("ConnectionError", S_unable_init \o e.msg, e)

\* mutant: the environment takes precedence over the argument
mutant_ResolveToken_env_first(github_token, env) == PyOr(env, github_token)

\* self.github_token = github_token or os.getenv('GITHUB_TOKEN')
ResolveToken(github_token, env) == PyOr(github_token, env)

\* mutant: the credential is resolved and checked before the import guard
mutant_Constructed_token_first(github_token, env, avail, ctor) ==
    LET token == ResolveToken(github_token, env)
        withToken == SetAttr(NewObject, "github_token", token)
    IN  IF ~Truthy(token)
        THEN [self |-> withToken, raised |-> MissingCredential, ctor_calls |-> << >>,
              log |-> << >>]
        ELSE IF ~avail
        THEN [self |-> NewObject, raised |-> ImportErrorExc, ctor_calls |-> << >>,
              log |-> << >>]
        ELSE IF ~_validate_token_format(token)
        THEN [self |-> withToken, raised |-> InvalidCredentialFormat,
              ctor_calls |-> << >>, log |-> << >>]
        ELSE IF ctor.kind = "return"
        THEN [self |-> SetAttr(SetAttr(withToken, "client", [api_key |-> token]),
                               "is_connected", TRUE),
              raised |-> NoException, ctor_calls |-> << token >>,
              log |-> << [level |-> "INFO", event |-> "initialized"] >>]
        ELSE [self |-> SetAttr(withToken, "is_connected", FALSE),
              raised |-> ConnectionFailure(ctor.exc), ctor_calls |-> << token >>,
              log |-> << [level |-> "ERROR", event |-> "init_failed"] >>]

\* mutant: is_connected is set before the handle is built and the handler does
\* not reset it
mutant_Constructed_flag_early(github_token, env, avail, ctor) ==
    LET token == ResolveToken(github_token, env)
        withToken == SetAttr(NewObject, "github_token", token)
    IN  IF ~avail
        THEN [self |-> NewObject, raised |-> ImportErrorExc, ctor_calls |-> << >>,
              log |-> << >>]
        ELSE IF ~Truthy(token)
        THEN [self |-> withToken, raised |-> MissingCredential, ctor_calls |-> << >>,
              log |-> << >>]
        ELSE IF ~_validate_token_format(token)
        THEN [self |-> withToken, raised |-> InvalidCredentialFormat,
              ctor_calls |-> << >>, log |-> << >>]
        ELSE IF ctor.kind = "return"
        THEN [self |-> SetAttr(SetAttr(withToken, "client", [api_key |-> token]),
                               "is_connected", TRUE),
              raised |-> NoException, ctor_calls |-> << token >>,
              log |-> << [level |-> "INFO", event |-> "initialized"] >>]
        ELSE [self |-> SetAttr(withToken, "is_connected", TRUE),
              raised |-> ConnectionFailure(ctor.exc), ctor_calls |-> << token >>,
              log |-> << [level |-> "ERROR", event |-> "init_failed"] >>]

\* mutant: the handle is built from the argument instead of the resolved token
mutant_Constructed_api_key_arg(github_token, env, avail, ctor) ==
    LET token == ResolveToken(github_token, env)
        withToken == SetAttr(NewObject, "github_token", token)
    IN  IF ~avail
        THEN [self |-> NewObject, raised |-> ImportErrorExc, ctor_calls |-> << >>,
              log |-> << >>]
        ELSE IF ~Truthy(token)
        THEN [self |-> withToken, raised |-> MissingCredential, ctor_calls |-> << >>,
              log |-> << >>]
        ELSE IF ~_validate_token_format(token)
        THEN [self |-> withToken, raised |-> InvalidCredentialFormat,
              ctor_calls |-> << >>, log |-> << >>]
        ELSE IF ctor.kind = "return"
        THEN [self |-> SetAttr(SetAttr(withToken, "client", [api_key |-> github_token]),
                               "is_connected", TRUE),
              raised |-> NoException, ctor_calls |-> << github_token >>,
              log |-> << [level |-> "INFO", event |-> "initialized"] >>]
        ELSE [self |-> SetAttr(withToken, "is_connected", FALSE),
              raised |-> ConnectionFailure(ctor.exc), ctor_calls |-> << github_token >>,
              log |-> << [level |-> "ERROR", event |-> "init_failed"] >>]

\* The outcome of MistralGitHubClient(github_token) when the module global is
\* `avail`, the environment holds `env` and MistralClient(api_key=...) behaves as
\* `ctor`: the attributes written, the exception raised, the constructor calls.
Constructed(github_token, env, avail, ctor) ==
    LET token == ResolveToken(github_token, env)
        withToken == SetAttr(NewObject, "github_token", token)
    IN  IF ~avail
        THEN [self |-> NewObject, raised |-> ImportErrorExc, ctor_calls |-> << >>,
              log |-> << >>]
        ELSE IF ~Truthy(token)
        THEN [self |-> withToken, raised |-> MissingCredential, ctor_calls |-> << >>,
              log |-> << >>]
        ELSE IF ~_validate_token_format(token)
        THEN [self |-> withToken, raised |-> InvalidCredentialFormat,
              ctor_calls |-> << >>, log |-> << >>]
        ELSE IF ctor.kind = "return"
        THEN [self |-> SetAttr(SetAttr(withToken, "client", [api_key |-> token]),
                               "is_connected", TRUE),
              raised |-> NoException, ctor_calls |-> << token >>,
              log |-> << [level |-> "INFO", event |-> "initialized"] >>]
        ELSE [self |-> SetAttr(withToken, "is_connected", FALSE),
              raised |-> ConnectionFailure(ctor.exc), ctor_calls |-> << token >>,
              log |-> << [level |-> "ERROR", event |-> "init_failed"] >>]

\* What MistralClient(api_key=...) may do: return a handle, or raise.
CtorOutcomes ==
    { [kind |-> "return"],
      [kind |-> "raise", exc |-> Exc("Exception", S_connection_failed)],
      [kind |-> "raise", exc |-> Exc("TypeError", << >>)] }

\* Tokens built as a prefix followed by a tail of MaxTail characters at most.
MaxTail == 8

PrefixCandidates ==
    { valid_prefixes[k] : k \in 1..Len(valid_prefixes) }
    \cup { <<"G", "H", "P", "_">>, <<"g", "h", "x", "_">>, <<" ", "g", "h", "p", "_">>,
           <<"g", "h", "p">>, << >> }

TokenStrings == { p \o Rep("1", n) : p \in PrefixCandidates, n \in 0..MaxTail }

\* The arguments _validate_token_format is called with
TokenInputs ==
    { PyStr(s) : s \in TokenStrings }
    \cup { None, PyInt(0), PyInt(12345), PyStr(S_valid_token), PyStr(S_invalid_token) }

\* The github_token argument of __init__ (None when it is left out)
InitArgs ==
    { None, PyStr(<< >>), PyStr(S_valid_token),
      PyStr(S_invalid_token), PyStr(<<"g", "h", "o", "_">> \o Rep("1", MaxTail)),
      PyStr(<<"g", "h", "p", "_">> \o Rep("1", MinTokenLength - 4)) }

\* The value of GITHUB_TOKEN in the environment (None when it is not set)
EnvValues == { None, PyStr(<< >>), PyStr(S_env_token), PyStr(S_invalid_token) }

Init ==
    /\ MISTRAL_AVAILABLE \in BOOLEAN
    /\ environ \in EnvValues
    /\ self = NewObject
    /\ pc = "start"
    /\ call = [op |-> "none"]
    /\ ret = None
    /\ raised = NoException
    /\ ctor_call_count = 0
    /\ ctor_call_args = << >>
    /\ chat_call_count = 0
    /\ chat_call_args = << >>
    /\ log = << >>
    /\ stdout = << >>
    /\ sent = << >>

\* client = MistralGitHubClient(github_token)
Construct(github_token, ctor) ==
    LET r == Constructed(github_token, environ, MISTRAL_AVAILABLE, ctor)
    IN  /\ pc = "start"
        /\ call' = [op |-> "__init__", github_token |-> github_token, ctor |-> ctor]
        /\ self' = r.self
        /\ raised' = r.raised
        /\ ret' = None
        /\ pc' = IF r.raised = NoException THEN "constructed" ELSE "failed"
        /\ ctor_call_count' = ctor_call_count + Len(r.ctor_calls)
        /\ ctor_call_args' = r.ctor_calls
        /\ log' = r.log
        /\ stdout' = << >>
        /\ sent' = << >>
        /\ UNCHANGED << MISTRAL_AVAILABLE, environ, chat_call_count, chat_call_args >>

\* client._validate_token_format(token)
ValidateTokenFormat(token) ==
    /\ pc = "constructed"
    /\ call' = [op |-> "_validate_token_format", token |-> token]
    /\ ret' = PyBool(_validate_token_format(token))
    /\ raised' = NoException
    /\ log' = << >>
    /\ stdout' = << >>
    /\ sent' = << >>
    /\ UNCHANGED << MISTRAL_AVAILABLE, environ, self, pc, ctor_call_count,
                    ctor_call_args, chat_call_count, chat_call_args >>

Next ==
    \/ \E github_token \in InitArgs, ctor \in CtorOutcomes : Construct(github_token, ctor)
    \/ \E token \in TokenInputs : ValidateTokenFormat(token)

Spec == Init /\ [][Next]_vars
-----------------------------------------------------------------------------
(* _sanitize_message: re.sub over two patterns *)

Lower ==
    { "a", "b", "c", "d", "e", "f", "g", "h", "i", "j", "k", "l", "m", "n", "o", "p", "q", "r",
      "s", "t", "u", "v", "w", "x", "y", "z" }

Upper ==
    { "A", "B", "C", "D", "E", "F", "G", "H", "I", "J", "K", "L", "M", "N", "O", "P", "Q", "R",
      "S", "T", "U", "V", "W", "X", "Y", "Z" }

Digit ==
    { "0", "1", "2", "3", "4", "5", "6", "7", "8", "9" }

\* [A-Za-z0-9]
Alnum == Lower \cup Upper \cup Digit

\* [A-Za-z0-9_]
WordChars == Alnum \cup {"_"}

MinTokenBody == 36
MinKeyBody == 48

\* A pattern of the shape the two regular expressions have: one character class
\* per leading position, then `min` or more characters of class `body` (greedy).

\* mutant: the quantifier written {37,}
mutant_TokenPattern_min_off_by_one ==
    [lead |-> << {"g"}, {"h"}, Lower, {"_"} >>, body |-> WordChars,
     min |-> MinTokenBody + 1]

\* gh[a-z]_[A-Za-z0-9_]{36,}
TokenPattern ==
    [lead |-> << {"g"}, {"h"}, Lower, {"_"} >>, body |-> WordChars, min |-> MinTokenBody]

\* mutant: the quantifier written {49,}
mutant_KeyPattern_min_off_by_one ==
    [lead |-> << {"s"}, {"k"}, {"-"} >>, body |-> Alnum, min |-> MinKeyBody + 1]

\* sk-[A-Za-z0-9]{48,}
KeyPattern ==
    [lead |-> << {"s"}, {"k"}, {"-"} >>, body |-> Alnum, min |-> MinKeyBody]

\* The last index of the longest run of characters of `cls` that starts at i
\* (i - 1 when s[i] is not in cls)
RECURSIVE RunEnd(_, _, _)
RunEnd(s, i, cls) ==
    IF i <= Len(s) /\ s[i] \in cls THEN RunEnd(s, i + 1, cls) ELSE i - 1

\* The index where the match of `pat` that starts at p ends, 0 when there is none
MatchEnd(pat, s, p) ==
    LET n == Len(pat.lead)
    IN  IF /\ p + n - 1 <= Len(s)
           /\ \A k \in 1..n : s[p + k - 1] \in pat.lead[k]
        THEN LET e == RunEnd(s, p + n, pat.body)
             IN  IF e - (p + n - 1) >= pat.min THEN e ELSE 0
        ELSE 0

\* The leftmost position >= from where `pat` matches, 0 when there is none
FirstMatch(pat, s, from) ==
    LET first == pat.lead[1]
        starts == { p \in from..Len(s) : s[p] \in first /\ MatchEnd(pat, s, p) > 0 }
    IN  IF starts = {} THEN 0 ELSE CHOOSE p \in starts : \A q \in starts : p <= q

\* re.sub(pat, repl, s), scanning from index `from`: every leftmost,
\* non-overlapping match is replaced
\* mutant: only the first match is replaced (count=1)
mutant_ReSubFrom_first_only(pat, repl, s, from) ==
    LET p == FirstMatch(pat, s, from)
    IN  IF p = 0
        THEN SubSeq(s, from, Len(s))
        ELSE SubSeq(s, from, p - 1) \o repl
                \o SubSeq(s, MatchEnd(pat, s, p) + 1, Len(s))

RECURSIVE ReSubFrom(_, _, _, _)
ReSubFrom(pat, repl, s, from) ==
    LET p == FirstMatch(pat, s, from)
    IN  IF p = 0
        THEN SubSeq(s, from, Len(s))
        ELSE SubSeq(s, from, p - 1) \o repl
                \o ReSubFrom(pat, repl, s, MatchEnd(pat, s, p) + 1)

ReSub(pat, repl, s) == ReSubFrom(pat, repl, s, 1)

\* sanitized = re.sub(r'gh[a-z]_[A-Za-z0-9_]{36,}', '[REDACTED_TOKEN]', message)
TokenPass(message) == ReSub(TokenPattern, S_redacted_token, message)

\* sanitized = re.sub(r'sk-[A-Za-z0-9]{48,}', '[REDACTED_API_KEY]', sanitized)
KeyPass(sanitized) == ReSub(KeyPattern, S_redacted_api_key, sanitized)

\* mutant: the key pattern applied first, the token pattern second
mutant_sanitize_message_key_first(message) == TokenPass(KeyPass(message))

\* _sanitize_message: the token pass, then the key pass on its result
_sanitize_message(message) == KeyPass(TokenPass(message))

-----------------------------------------------------------------------------
(* send_chat_message *)

MaxMessageLength == 10000
LogExcerptLength == 100

\* The characters str.strip() removes (of those the model's strings hold)
Whitespace == {" ", "\t", "\n", "\r"}

RECURSIVE LStripIndex(_, _)
LStripIndex(s, i) ==
    IF i <= Len(s) /\ s[i] \in Whitespace THEN LStripIndex(s, i + 1) ELSE i

RECURSIVE RStripIndex(_, _, _)
RStripIndex(s, lo, j) ==
    IF j >= lo /\ s[j] \in Whitespace THEN RStripIndex(s, lo, j - 1) ELSE j

\* s.strip()
Strip(s) ==
    LET lo == LStripIndex(s, 1)
    IN  SubSeq(s, lo, RStripIndex(s, lo, Len(s)))

\* s[:n]
Take(s, n) == SubSeq(s, 1, IF Len(s) < n THEN Len(s) ELSE n)

NotConnected == Exc("ConnectionError", S_not_connected)
EmptyMessage == Exc("ValueError", S_empty_message)
MessageTooLong == Exc("ValueError", S_too_long)

\* A parameter left out of the call takes its default
Omitted == [t |-> "omitted"]
ArgOrDefault(arg, default) == IF arg = Omitted THEN default ELSE arg.v

default_model == S_mistral_tiny

\* What the collaborator may do in one call: ChatMessage(...) raises; or
\* client.chat(...) raises; or it returns a response with these choices, each
\* given by its message.content.
ChatOutcomes ==
    { [kind |-> "message_raises", exc |-> Exc("TypeError", <<"b", "a", "d">>)],
      [kind |-> "chat_raises", exc |-> Exc("Exception", S_api_error)],
      [kind |-> "response", choices |-> << >>],
      [kind |-> "response", choices |-> << S_test_response >>],
      [kind |-> "response", choices |-> << << >>, S_test_response >>] }

InfoSending(model, sanitized_message) ==
    [level |-> "INFO",
     msg |-> S_sending_prefix \o model \o S_sending_sep
                \o Take(sanitized_message, LogExcerptLength) \o S_ellipsis]

\* The try block: the exception it ends with, NoException when it returns
TryException(outcome) ==
    IF outcome.kind = "response"
    THEN IF Len(outcome.choices) = 0 THEN Exc("IndexError", S_index_error) ELSE NoException
    ELSE outcome.exc

\* mutant: the cap is applied to the untrimmed message
mutant_PreconditionError_untrimmed(obj, message) ==
    IF ~obj.is_connected THEN NotConnected
    ELSE IF Len(message) = 0 \/ Len(Strip(message)) = 0 THEN EmptyMessage
    ELSE IF Len(message) > MaxMessageLength THEN MessageTooLong
    ELSE NoException

\* The three guards at the head of send_chat_message: the exception the first
\* violated one raises, NoException when all pass
PreconditionError(obj, message) ==
    IF ~obj.is_connected THEN NotConnected
    ELSE IF Len(message) = 0 \/ Len(Strip(message)) = 0 THEN EmptyMessage
    ELSE IF Len(Strip(message)) > MaxMessageLength THEN MessageTooLong
    ELSE NoException

\* mutant: the sanitized text is what is sent
mutant_OutboundContent_sanitized(message) == _sanitize_message(Strip(message))

\* ChatMessage(role="user", content=message.strip())
OutboundContent(message) == Strip(message)

\* mutant: the exception text is left out of the error
mutant_ErrorMessage_generic(e) == S_error_prefix

\* f"Error communicating with Mistral AI: {str(e)}"
ErrorMessage(e) == S_error_prefix \o e.msg

\* mutant: a success record that also carries an (empty) error
mutant_SuccessRecord_with_error(text, model) ==
    [success |-> TRUE, response |-> text, error |-> << >>, model_used |-> model]

SuccessRecord(text, model) == [success |-> TRUE, response |-> text, model_used |-> model]
FailureRecord(error, model) == [success |-> FALSE, error |-> error, model_used |-> model]

\* mutant: the message is cut to the excerpt length first and sanitized after
mutant_SanitizedForLog_truncated_first(message) ==
    _sanitize_message(Take(message, LogExcerptLength))

\* sanitized_message = self._sanitize_message(message)
SanitizedForLog(message) == _sanitize_message(message)

\* mutant: a call that raised is made a second time
mutant_ChatCalls_retry(model, messages, outcome) ==
    IF outcome.kind = "message_raises" THEN << >>
    ELSE IF outcome.kind = "chat_raises"
    THEN << [model |-> model, messages |-> messages],
            [model |-> model, messages |-> messages] >>
    ELSE << [model |-> model, messages |-> messages] >>

\* The calls of self.client.chat(model=model, messages=messages) one invocation
\* makes: none when ChatMessage(...) raised before it, else one
ChatCalls(model, messages, outcome) ==
    IF outcome.kind = "message_raises" THEN << >>
    ELSE << [model |-> model, messages |-> messages] >>

\* obj.send_chat_message(message, model) when the collaborator behaves as
\* `outcome`: the value returned, the exception raised, the client.chat calls
\* made and the log records written.
send_chat_message(obj, message, model, outcome) ==
    IF PreconditionError(obj, message) # NoException
    THEN [ret |-> None, raised |-> PreconditionError(obj, message),
          chat_calls |-> << >>, log |-> << >>]
    ELSE
      LET sanitized_message == SanitizedForLog(message)
          sending == InfoSending(model, sanitized_message)
          messages == << [role |-> "user", content |-> OutboundContent(message)] >>
          calls == ChatCalls(model, messages, outcome)
          e == TryException(outcome)
      IN  IF e = NoException
          THEN [ret |-> SuccessRecord(outcome.choices[1], model),
                raised |-> NoException,
                chat_calls |-> calls,
                log |-> << sending, [level |-> "INFO", msg |-> S_received] >>]
          ELSE [ret |-> FailureRecord(ErrorMessage(e), model),
                raised |-> NoException,
                chat_calls |-> calls,
                log |-> << sending, [level |-> "ERROR", msg |-> ErrorMessage(e)] >>]

-----------------------------------------------------------------------------
(* Chat calls on a constructed session *)

\* client.chat(...) calls one behaviour makes at most
MaxChatCalls == 2

\* Messages that hold what the two patterns look for
token_like_message ==
    <<"t", " ">> \o <<"g", "h", "p", "_">> \o Rep("a", MinTokenBody) \o <<" ", "x">>

key_like_message ==
    <<"k", " ">> \o <<"s", "k", "-">> \o Rep("0", MinKeyBody)

ShortMessages ==
    { << >>, <<" ", "\n", "\t">>, S_test_message,
      <<" ", " ">> \o S_test_message \o <<"\n">>,
      token_like_message, key_like_message }

LongMessages ==
    { Rep("x", MaxMessageLength),
      Rep("x", MaxMessageLength + 1),
      <<" ">> \o Rep("x", MaxMessageLength) \o <<"\n">>,
      <<"\t">> \o Rep("x", MaxMessageLength + 1) }

\* The model argument: left out, or given
ModelArgs == { Omitted, PyStr(S_mistral_small) }

ChatInputs ==
    (ShortMessages \X ModelArgs \X ChatOutcomes)
    \cup (LongMessages \X {Omitted}
            \X { [kind |-> "response", choices |-> << S_test_response >>] })

\* A session built by MistralGitHubClient(valid_token) with the library
\* available and no GITHUB_TOKEN set, as the tests of the methods build it
TestSession ==
    LET r == Constructed(PyStr(S_valid_token), None, TRUE, [kind |-> "return"])
    IN  /\ MISTRAL_AVAILABLE = TRUE
        /\ environ = None
        /\ self = r.self
        /\ pc = "constructed"
        /\ ret = None
        /\ raised = r.raised
        /\ ctor_call_count = Len(r.ctor_calls)
        /\ ctor_call_args = r.ctor_calls
        /\ chat_call_count = 0
        /\ chat_call_args = << >>
        /\ log = r.log
        /\ stdout = << >>
        /\ sent = << >>

InitChat ==
    /\ TestSession
    /\ call = [op |-> "__init__", github_token |-> PyStr(S_valid_token),
               ctor |-> [kind |-> "return"]]

\* The state after a method returned or raised, r being what it returned,
\* raised, called and logged
Returned(r) ==
    /\ ret' = r.ret
    /\ raised' = r.raised
    /\ chat_call_count' = chat_call_count + Len(r.chat_calls)
    /\ chat_call_args' = IF r.chat_calls = << >> THEN chat_call_args ELSE r.chat_calls
    /\ log' = r.log

\* client.send_chat_message(message[, model])
SendChatMessage(message, modelArg, outcome) ==
    /\ pc = "constructed"
    /\ chat_call_count < MaxChatCalls
    /\ call' = [op |-> "send_chat_message", message |-> message,
                model |-> modelArg, outcome |-> outcome]
    /\ Returned(send_chat_message(self, message, ArgOrDefault(modelArg, default_model),
                                  outcome))
    /\ stdout' = << >>
    /\ sent' = << [message |-> message,
                   model |-> ArgOrDefault(modelArg, default_model)] >>
    /\ UNCHANGED << MISTRAL_AVAILABLE, environ, self, pc, ctor_call_count,
                    ctor_call_args >>

\* client.is_connected = False, as a caller simulates a disconnection
Disconnect ==
    /\ pc = "constructed"
    /\ self.is_connected
    /\ self' = SetAttr(self, "is_connected", FALSE)
    /\ call' = [op |-> "set_is_connected"]
    /\ ret' = None
    /\ raised' = NoException
    /\ log' = << >>
    /\ stdout' = << >>
    /\ sent' = << >>
    /\ UNCHANGED << MISTRAL_AVAILABLE, environ, pc, ctor_call_count, ctor_call_args,
                    chat_call_count, chat_call_args >>

NextChat ==
    \/ \E in \in ChatInputs : SendChatMessage(in[1], in[2], in[3])
    \/ Disconnect

SpecChat == InitChat /\ [][NextChat]_vars

-----------------------------------------------------------------------------
(* The other methods of a constructed session *)

\* mutant: the identifiers in alphabetical order
mutant_get_available_models_sorted ==
    << S_mistral_large, S_mistral_medium, S_mistral_small, S_mistral_tiny >>

\* obj.get_available_models()
get_available_models ==
    << S_mistral_tiny, S_mistral_small, S_mistral_medium, S_mistral_large >>

S_health_failed ==
    << "H", "e", "a", "l", "t", "h", " ", "c", "h", "e", "c", "k", " ", "f", "a", "i", "l",
       "e", "d", ":", " " >>

\* mutant: True whenever send_chat_message returned a record
mutant_HealthResult_any_record(r) == r.raised = NoException

\* return result['success'], and False from the except clause
HealthResult(r) == IF r.raised = NoException THEN r.ret.success ELSE FALSE

\* What health_check returns, calls and logs, r being what its call of
\* send_chat_message did
HealthRecord(r) ==
    [ret |-> PyBool(HealthResult(r)),
     raised |-> NoException,
     sent |-> << [message |-> S_hello, model |-> default_model] >>,
     chat_calls |-> r.chat_calls,
     log |-> IF r.raised = NoException THEN r.log
             ELSE r.log \o << [level |-> "ERROR",
                               msg |-> S_health_failed \o r.raised.msg] >>]

\* obj.health_check() when the collaborator behaves as `outcome`
health_check(obj, outcome) ==
    HealthRecord(send_chat_message(obj, S_hello, default_model, outcome))

\* A message whose token starts before the 100th character and ends after it
late_token_message ==
    Rep("m", LogExcerptLength - 10) \o <<" ">>
        \o <<"g", "h", "p", "_">> \o Rep("a", MinTokenBody) \o <<" ", "e", "n", "d">>

OpsMessages ==
    ShortMessages
    \cup { late_token_message, <<" ">> \o token_like_message }

OpsInputs == OpsMessages \X ModelArgs \X ChatOutcomes

\* The state after health_check, h being what it did
AfterHealthCheck(h) ==
    /\ Returned(h)
    /\ stdout' = << >>
    /\ sent' = h.sent

\* mutant: a health check marks the session as disconnected
mutant_HealthCheck_clears_flag(outcome) ==
    /\ pc = "constructed"
    /\ chat_call_count < MaxChatCalls
    /\ call' = [op |-> "health_check", outcome |-> outcome]
    /\ AfterHealthCheck(health_check(self, outcome))
    /\ self' = SetAttr(self, "is_connected", FALSE)
    /\ UNCHANGED << MISTRAL_AVAILABLE, environ, pc, ctor_call_count, ctor_call_args >>

\* client.health_check()
HealthCheck(outcome) ==
    /\ pc = "constructed"
    /\ chat_call_count < MaxChatCalls
    /\ call' = [op |-> "health_check", outcome |-> outcome]
    /\ AfterHealthCheck(health_check(self, outcome))
    /\ UNCHANGED << MISTRAL_AVAILABLE, environ, self, pc, ctor_call_count,
                    ctor_call_args >>

\* client.get_available_models()
GetAvailableModels ==
    /\ pc = "constructed"
    /\ call' = [op |-> "get_available_models"]
    /\ ret' = get_available_models
    /\ raised' = NoException
    /\ log' = << >>
    /\ stdout' = << >>
    /\ sent' = << >>
    /\ UNCHANGED << MISTRAL_AVAILABLE, environ, self, pc, ctor_call_count,
                    ctor_call_args, chat_call_count, chat_call_args >>

\* What print(...) writes: the statement, and the text it interpolates
Out(line) == [line |-> line]
OutText(line, text) == [line |-> line, text |-> text]

demo_messages ==
    << << "H", "e", "l", "l", "o", ",", " ", "c", "a", "n", " ", "y", "o", "u", " ", "h", "e", "l",
          "p", " ", "m", "e", " ", "w", "i", "t", "h", " ", "a", " ", "s", "i", "m", "p", "l",
          "e", " ", "c", "o", "d", "i", "n", "g", " ", "q", "u", "e", "s", "t", "i", "o", "n",
          "?" >>,
       << "W", "h", "a", "t", " ", "a", "r", "e", " ", "t", "h", "e", " ", "b", "e", "s", "t", " ",
          "p", "r", "a", "c", "t", "i", "c", "e", "s", " ", "f", "o", "r", " ", "w", "r", "i",
          "t", "i", "n", "g", " ", "s", "e", "c", "u", "r", "e", " ", "s", "m", "a", "r", "t",
          " ", "c", "o", "n", "t", "r", "a", "c", "t", "s", "?" >>,
       << "E", "x", "p", "l", "a", "i", "n", " ", "t", "h", "e", " ", "d", "i", "f", "f", "e", "r",
          "e", "n", "c", "e", " ", "b", "e", "t", "w", "e", "e", "n", " ", "E", "R", "C", "-",
          "2", "0", " ", "a", "n", "d", " ", "E", "R", "C", "-", "7", "2", "1", " ", "t", "o",
          "k", "e", "n", "s", "." >> >>

MaxDisplayLength == 200

\* f"{response[:200]}..." if len(response) > 200 else response
DisplayResponse(response) ==
    IF Len(response) > MaxDisplayLength
    THEN Take(response, MaxDisplayLength) \o S_ellipsis
    ELSE response

\* What is printed for the result r of a send_chat_message call made inside a
\* try block: the response (under the name `shown`), the error of a failure
\* record, or the exception caught
ResultLine(r, shown, text) ==
    IF r.raised # NoException THEN OutText("Unexpected error", r.raised.msg)
    ELSE IF r.ret.success THEN OutText(shown, text)
    ELSE OutText("Error", r.ret.error)

\* What one pass of the loop of demonstrate_interaction invokes, calls, logs and
\* prints, r being what its call of send_chat_message did
DemoPassRecord(i, r) ==
    [sent |-> << [message |-> demo_messages[i], model |-> default_model] >>,
     chat_calls |-> r.chat_calls,
     log |-> r.log,
     stdout |-> << OutText("Demo Message", demo_messages[i]),
                   Out("Sending to Mistral AI"),
                   ResultLine(r, "Response",
                              IF r.raised = NoException /\ r.ret.success
                              THEN DisplayResponse(r.ret.response) ELSE << >>) >>]

\* One pass of the loop of demonstrate_interaction, for the i-th message
DemoPass(obj, i, outcome) ==
    DemoPassRecord(i, send_chat_message(obj, demo_messages[i], default_model, outcome))

\* The three passes, one after the other, after the header
DemoRecord(p1, p2, p3) ==
    [sent |-> p1.sent \o p2.sent \o p3.sent,
     chat_calls |-> p1.chat_calls \o p2.chat_calls \o p3.chat_calls,
     log |-> p1.log \o p2.log \o p3.log,
     stdout |-> << Out("Mistral AI GitHub Integration Demo") >>
                    \o p1.stdout \o p2.stdout \o p3.stdout]

\* obj.demonstrate_interaction() when the collaborator behaves as outcomes[i]
\* on the i-th message
demonstrate_interaction(obj, outcomes) ==
    DemoRecord(DemoPass(obj, 1, outcomes[1]), DemoPass(obj, 2, outcomes[2]),
               DemoPass(obj, 3, outcomes[3]))

LowerSeq ==
    << "a", "b", "c", "d", "e", "f", "g", "h", "i", "j", "k", "l", "m", "n", "o", "p", "q", "r",
       "s", "t", "u", "v", "w", "x", "y", "z" >>

UpperSeq ==
    << "A", "B", "C", "D", "E", "F", "G", "H", "I", "J", "K", "L", "M", "N", "O", "P", "Q", "R",
       "S", "T", "U", "V", "W", "X", "Y", "Z" >>

\* s.lower()
StrLower(s) ==
    << >> \o [i \in 1..Len(s) |->
                IF s[i] \in Upper
                THEN LowerSeq[CHOOSE k \in 1..26 : UpperSeq[k] = s[i]]
                ELSE s[i]]

S_eof ==
    << "E", "O", "F", " ", "w", "h", "e", "n", " ", "r", "e", "a", "d", "i", "n", "g", " ",
       "a", " ", "l", "i", "n", "e" >>

\* What input() does: it returns a line, or raises
InputEvents(lines) ==
    [kind : {"line"}, text : lines]
    \cup { [kind |-> "KeyboardInterrupt"], [kind |-> "EOFError"] }

\* self._show_help()
_show_help ==
    << Out("Available Commands"), Out("help"), Out("models"), Out("health"), Out("quit"),
       Out("Just type any message to chat with Mistral AI!") >>

\* self._show_models()
_show_models ==
    << Out("Available Models") >>
        \o [i \in 1..Len(get_available_models) |-> OutText("model", get_available_models[i])]

\* A pass of the loop of interactive_mode that goes on to the next input(): what
\* it printed on top of what its one call h (of health_check or of
\* send_chat_message) invoked, called and logged
Looping(h, lines) ==
    [loop |-> TRUE, sent |-> h.sent, chat_calls |-> h.chat_calls, log |-> h.log,
     stdout |-> lines]

\* What _show_health_status prints, h being what health_check did
HealthStatusLines(h) ==
    << Out("Checking connection health"),
       IF h.ret.v THEN Out("Connection is healthy!")
       ELSE Out("Connection issues detected") >>

\* self._show_health_status(), as a pass of the loop
ShowHealthPass(h) == Looping(h, HealthStatusLines(h))

_show_health_status(obj, outcome) == ShowHealthPass(health_check(obj, outcome))

\* A pass of the loop that calls nothing and prints `lines`
Printed(loop, lines) ==
    [loop |-> loop, sent |-> << >>, chat_calls |-> << >>, log |-> << >>, stdout |-> lines]

\* mutant: the commands are compared without lower()
mutant_CommandWord_case_sensitive(user_input) == user_input

\* user_input.lower(), which the command words are compared with
CommandWord(user_input) == StrLower(user_input)

\* result = self.send_chat_message(user_input) and the prints around it, r being
\* what the call did
ChatPass(user_input, r) ==
    [loop |-> TRUE,
     sent |-> << [message |-> user_input, model |-> default_model] >>,
     chat_calls |-> r.chat_calls,
     log |-> r.log,
     stdout |-> << Out("Mistral AI is thinking..."),
                   ResultLine(r, "Mistral AI",
                              IF r.raised = NoException /\ r.ret.success
                              THEN r.ret.response ELSE << >>) >>]

\* The if/elif chain on the line read: user_input is the stripped line, word
\* what the command words are compared with
Dispatch(obj, user_input, word, outcome) ==
    IF word \in { <<"q", "u", "i", "t">>, <<"e", "x", "i", "t">>, <<"q">> }
    THEN Printed(FALSE, << Out("Goodbye!") >>)
    ELSE IF word = <<"h", "e", "l", "p">> THEN Printed(TRUE, _show_help)
    ELSE IF word = <<"m", "o", "d", "e", "l", "s">> THEN Printed(TRUE, _show_models)
    ELSE IF word = <<"h", "e", "a", "l", "t", "h">> THEN _show_health_status(obj, outcome)
    ELSE IF user_input = << >>
    THEN Printed(TRUE, << Out("Please enter a message or command.") >>)
    ELSE ChatPass(user_input,
                  send_chat_message(obj, user_input, default_model, outcome))

\* user_input = input(...).strip(), then the chain
ReadLine(obj, user_input, outcome) ==
    Dispatch(obj, user_input, CommandWord(user_input), outcome)

\* mutant: end of input ends the loop, as an interrupt does
mutant_interactive_pass_eof_breaks(obj, event, outcome) ==
    IF event.kind \in {"KeyboardInterrupt", "EOFError"}
    THEN Printed(FALSE, << Out("Session ended by user. Goodbye!") >>)
    ELSE ReadLine(obj, Strip(event.text), outcome)

\* One pass of the loop of obj.interactive_mode(): input() behaves as `event`
\* and the collaborator as `outcome`; loop is FALSE when the pass ends in break
interactive_pass(obj, event, outcome) ==
    IF event.kind = "KeyboardInterrupt"
    THEN Printed(FALSE, << Out("Session ended by user. Goodbye!") >>)
    ELSE IF event.kind = "EOFError"
    THEN Printed(TRUE, << OutText("Unexpected error", S_eof) >>)
    ELSE ReadLine(obj, Strip(event.text), outcome)

\* Collaborator behaviours tried in the demonstration
DemoOutcomes ==
    { [kind |-> "chat_raises", exc |-> Exc("Exception", S_api_error)],
      [kind |-> "response", choices |-> << >>],
      [kind |-> "response", choices |-> << S_test_response >>] }

\* client.chat(...) calls a behaviour may have made when a further line is read
MaxLoopCalls == 5

\* What the user types at the prompt of interactive_mode
InteractiveLines ==
    { <<"q", "u", "i", "t">>, <<"E", "X", "I", "T">>, <<" ", "q", " ">>,
      <<"h", "e", "l", "p">>, <<"H", "e", "l", "p">>, <<"m", "o", "d", "e", "l", "s">>,
      <<"h", "e", "a", "l", "t", "h">>, <<"H", "E", "A", "L", "T", "H", "\t">>,
      << >>, <<" ", " ">>, S_test_message, <<"q", "u", "i", "t", " ", "n", "o", "w">>,
      <<" ">> \o token_like_message }

\* The state after a method that returns None and raises nothing, r being what
\* it invoked, called, logged and printed
AfterCalls(r) ==
    /\ ret' = None
    /\ raised' = NoException
    /\ chat_call_count' = chat_call_count + Len(r.chat_calls)
    /\ chat_call_args' = IF r.chat_calls = << >> THEN chat_call_args
                         ELSE << r.chat_calls[Len(r.chat_calls)] >>
    /\ log' = r.log
    /\ stdout' = r.stdout
    /\ sent' = r.sent

\* client.demonstrate_interaction()
DemonstrateInteraction(outcomes) ==
    /\ pc = "constructed"
    /\ chat_call_count < MaxChatCalls
    /\ call' = [op |-> "demonstrate_interaction", outcomes |-> outcomes]
    /\ AfterCalls(demonstrate_interaction(self, outcomes))
    /\ UNCHANGED << MISTRAL_AVAILABLE, environ, self, pc, ctor_call_count,
                    ctor_call_args >>

\* client.interactive_mode(), up to its first input()
InteractiveMode ==
    /\ pc = "constructed"
    /\ pc' = "interactive"
    /\ call' = [op |-> "interactive_mode"]
    /\ ret' = None
    /\ raised' = NoException
    /\ log' = << >>
    /\ stdout' = << Out("Interactive Mode"), Out("Commands") >>
    /\ sent' = << >>
    /\ UNCHANGED << MISTRAL_AVAILABLE, environ, self, ctor_call_count, ctor_call_args,
                    chat_call_count, chat_call_args >>

\* Where a pass r of the loop leaves the caller, and what it leaves behind
AfterPass(r) ==
    /\ pc' = IF r.loop THEN pc
             ELSE IF pc = "interactive" THEN "constructed" ELSE "exited"
    /\ ret' = IF ~r.loop /\ pc = "main_interactive" THEN PyInt(0) ELSE None
    /\ raised' = NoException
    /\ chat_call_count' = chat_call_count + Len(r.chat_calls)
    /\ chat_call_args' = IF r.chat_calls = << >> THEN chat_call_args ELSE r.chat_calls
    /\ log' = r.log
    /\ stdout' = r.stdout
    /\ sent' = r.sent

\* One pass of the loop of interactive_mode, from one input() to the next or to
\* the return to the caller: a test, or main, which then returns 0
InteractiveLine(event, outcome) ==
    /\ pc \in {"interactive", "main_interactive"}
    /\ chat_call_count < MaxLoopCalls
    /\ call' = [op |-> "interactive_line", event |-> event, outcome |-> outcome]
    /\ AfterPass(interactive_pass(self, event, outcome))
    /\ UNCHANGED << MISTRAL_AVAILABLE, environ, self, ctor_call_count, ctor_call_args >>

NextOps ==
    \/ \E in \in OpsInputs : SendChatMessage(in[1], in[2], in[3])
    \/ \E outcome \in ChatOutcomes : HealthCheck(outcome)
    \/ GetAvailableModels
    \/ Disconnect

SpecOps == InitChat /\ [][NextOps]_vars

\* interactive_mode on a session a test holds, connected or not
NextInteractive ==
    \/ InteractiveMode
    \/ \E event \in InputEvents(InteractiveLines), outcome \in ChatOutcomes :
          InteractiveLine(event, outcome)
    \/ Disconnect

SpecInteractive == InitChat /\ [][NextInteractive]_vars

\* Every method of the session, called in any order
NextSession ==
    \/ NextOps
    \/ \E outcomes \in [1..3 -> DemoOutcomes] : DemonstrateInteraction(outcomes)
    \/ NextInteractive

SpecSession == InitChat /\ [][NextSession]_vars

-----------------------------------------------------------------------------
(* main() *)

S_unexpected ==
    << "U", "n", "e", "x", "p", "e", "c", "t", "e", "d", " ", "e", "r", "r", "o", "r", ":", " " >>

\* mutant: a connection failure ends the program with code 0
mutant_ExceptClause_connection_zero(e) ==
    CASE e.type = "ImportError" ->
           [code |-> 1, log |-> << >>, stdout |-> << OutText("Import Error", e.msg) >>]
      [] e.type = "ValueError" ->
           [code |-> 1, log |-> << >>,
            stdout |-> << OutText("Configuration Error", e.msg) >>]
      [] e.type = "ConnectionError" ->
           [code |-> 0, log |-> << >>, stdout |-> << OutText("Connection Error", e.msg) >>]
      [] OTHER ->
           [code |-> 1,
            log |-> << [level |-> "ERROR", msg |-> S_unexpected \o e.msg] >>,
            stdout |-> << OutText("Unexpected Error", e.msg) >>]

\* The except clauses of main: what the one that catches e prints and returns
ExceptClause(e) ==
    CASE e.type = "ImportError" ->
           [code |-> 1, log |-> << >>, stdout |-> << OutText("Import Error", e.msg) >>]
      [] e.type = "ValueError" ->
           [code |-> 1, log |-> << >>,
            stdout |-> << OutText("Configuration Error", e.msg) >>]
      [] e.type = "ConnectionError" ->
           [code |-> 1, log |-> << >>, stdout |-> << OutText("Connection Error", e.msg) >>]
      [] OTHER ->
           [code |-> 1,
            log |-> << [level |-> "ERROR", msg |-> S_unexpected \o e.msg] >>,
            stdout |-> << OutText("Unexpected Error", e.msg) >>]

\* print at the head of main
MainBanner == << Out("Mistral AI Client - GitHub Integration") >>

\* main returns from an except clause x after the constructor c raised
MainFailed(c, x) ==
    [code |-> PyInt(x.code), self |-> c.self, ctor_calls |-> c.ctor_calls,
     sent |-> << >>, chat_calls |-> << >>, log |-> c.log \o x.log,
     stdout |-> MainBanner \o x.stdout]

\* main reaches the yes/no loop: c is what the constructor did, h the health
\* check and d the demonstration
MainDemo(c, h, d) ==
    [code |-> None, self |-> c.self, ctor_calls |-> c.ctor_calls,
     sent |-> h.sent \o d.sent,
     chat_calls |-> h.chat_calls \o d.chat_calls,
     log |-> c.log \o h.log \o d.log,
     stdout |-> MainBanner
         \o << Out("Successfully initialized"), Out("Performing health check"),
               IF h.ret.v THEN Out("Health check passed!")
               ELSE Out("Warning: Health check failed") >>
         \o << Out("Running demonstration") >> \o d.stdout]

\* The try block of main from client = MistralGitHubClient() on, c being what
\* the constructor did
MainTry(c, health, outcomes) ==
    IF c.raised # NoException
    THEN MainFailed(c, ExceptClause(c.raised))
    ELSE MainDemo(c, health_check(c.self, health),
                  demonstrate_interaction(c.self, outcomes))

\* main() up to its first input(), or to its return when it does not get that
\* far: `code` is the value returned, None while main goes on
main_start(env, avail, ctor, health, outcomes) ==
    IF ~Truthy(env)
    THEN [code |-> PyInt(1), self |-> NewObject, ctor_calls |-> << >>,
          sent |-> << >>, chat_calls |-> << >>, log |-> << >>,
          stdout |-> MainBanner \o << Out("GITHUB_TOKEN environment variable not set"),
                                      Out("Setup Instructions") >>]
    ELSE MainTry(Constructed(None, env, avail, ctor), health, outcomes)

\* One pass of the yes/no loop of main: input() behaves as `event`
main_prompt(event) ==
    IF event.kind = "KeyboardInterrupt"
    THEN [next |-> "exited", code |-> PyInt(0), log |-> << >>,
          stdout |-> << Out("Goodbye!") >>]
    ELSE IF event.kind = "EOFError"
    THEN LET x == ExceptClause(Exc("EOFError", S_eof))
         IN  [next |-> "exited", code |-> PyInt(x.code), log |-> x.log,
              stdout |-> x.stdout]
    ELSE
      LET choice == StrLower(Strip(event.text))
      IN  IF choice \in { <<"y">>, <<"y", "e", "s">> }
          THEN [next |-> "main_interactive", code |-> None, log |-> << >>,
                stdout |-> << Out("Interactive Mode"), Out("Commands") >>]
          ELSE IF choice \in { <<"n">>, <<"n", "o">> }
          THEN [next |-> "exited", code |-> PyInt(0), log |-> << >>,
                stdout |-> << Out("Demo completed successfully!") >>]
          ELSE [next |-> "main_prompt", code |-> None, log |-> << >>,
                stdout |-> << Out("Please enter 'y' or 'n'") >>]

\* What the user types at the yes/no prompt
PromptLines ==
    { <<"y">>, <<"Y", "E", "S">>, <<" ", "y", "\n">>, <<"n">>, <<"N", "o">>, << >>,
      <<"m", "a", "y", "b", "e">> }

InitMain ==
    /\ MISTRAL_AVAILABLE \in BOOLEAN
    /\ environ \in EnvValues
    /\ self = NewObject
    /\ pc = "main"
    /\ call = [op |-> "none"]
    /\ ret = None
    /\ raised = NoException
    /\ ctor_call_count = 0
    /\ ctor_call_args = << >>
    /\ chat_call_count = 0
    /\ chat_call_args = << >>
    /\ log = << >>
    /\ stdout = << >>
    /\ sent = << >>

\* Where the first part r of main leaves the program
AfterStart(r) ==
    /\ pc' = IF r.code = None THEN "main_prompt" ELSE "exited"
    /\ self' = r.self
    /\ ret' = r.code
    /\ raised' = NoException
    /\ ctor_call_count' = ctor_call_count + Len(r.ctor_calls)
    /\ ctor_call_args' = r.ctor_calls
    /\ chat_call_count' = chat_call_count + Len(r.chat_calls)
    /\ chat_call_args' = IF r.chat_calls = << >> THEN chat_call_args
                         ELSE << r.chat_calls[Len(r.chat_calls)] >>
    /\ log' = r.log
    /\ stdout' = r.stdout
    /\ sent' = r.sent

\* exit_code = main(), up to the first input() or to the return
MainStart(ctor, health, outcomes) ==
    /\ pc = "main"
    /\ call' = [op |-> "main", ctor |-> ctor, health |-> health, outcomes |-> outcomes]
    /\ AfterStart(main_start(environ, MISTRAL_AVAILABLE, ctor, health, outcomes))
    /\ UNCHANGED << MISTRAL_AVAILABLE, environ >>

\* One pass of the yes/no loop of main
MainPrompt(event) ==
    LET r == main_prompt(event)
    IN  /\ pc = "main_prompt"
        /\ pc' = r.next
        /\ call' = [op |-> "main_prompt", event |-> event]
        /\ ret' = r.code
        /\ raised' = NoException
        /\ log' = r.log
        /\ stdout' = r.stdout
        /\ sent' = << >>
        /\ UNCHANGED << MISTRAL_AVAILABLE, environ, self, ctor_call_count,
                        ctor_call_args, chat_call_count, chat_call_args >>

NextMain ==
    \/ \E ctor \in CtorOutcomes, health \in ChatOutcomes,
          outcomes \in [1..3 -> DemoOutcomes] : MainStart(ctor, health, outcomes)
    \/ \E event \in InputEvents(PromptLines) : MainPrompt(event)
    \/ \E event \in InputEvents(InteractiveLines), outcome \in ChatOutcomes :
          InteractiveLine(event, outcome)

SpecMain == InitMain /\ [][NextMain]_vars

-----------------------------------------------------------------------------
(* _sanitize_message applied to messages built around one candidate secret *)

\* Characters a candidate's body goes beyond the longer of the two minimum
\* lengths
MaxExtra == 1

BodyLengths ==
    { MinTokenBody - 1, MinTokenBody, MinTokenBody + 1, MinKeyBody - 1 }
    \cup { MinKeyBody + k : k \in 0..MaxExtra }

\* What stands where the pattern's fixed prefix would
Leads ==
    { <<"g", "h", "p", "_">>, <<"g", "h", "z", "_">>, <<"g", "x", "_">>, <<"g", "h", "_">>,
      <<"g", "h", "P", "_">>, <<"G", "H", "P", "_">>, <<"s", "k", "-">>, <<"s", "k", "_">> }

SanitizeInputs ==
    [ pre : { << >>, <<"t", " ">>, <<"x">> },
      lead : Leads,
      ch : { "a", "Z", "7", "_" },
      n : BodyLengths,
      post : { << >>, <<" ", "x">>, <<"-", "y">> } ]

\* pre, then the lead, then n times the character ch, then post
BuildMessage(parts) == parts.pre \o parts.lead \o Rep(parts.ch, parts.n) \o parts.post

\* Most pieces a combined message is made of
MaxPieces == 3

\* Candidate secrets on either side of each minimum length, and separators
Pieces ==
    { <<"g", "h", "p", "_">> \o Rep("a", MinTokenBody),
      <<"g", "h", "o", "_">> \o Rep("b", MinTokenBody - 1),
      <<"s", "k", "-">> \o Rep("0", MinKeyBody),
      <<"s", "k", "-">> \o Rep("9", MinKeyBody - 1),
      <<" ">>, <<"_">>, <<"-">> }

RECURSIVE Join(_)
Join(ps) == IF ps = << >> THEN << >> ELSE Head(ps) \o Join(Tail(ps))

\* test_message of test_message_sanitization
both_secrets_message ==
    << "M", "y", " ", "t", "o", "k", "e", "n", " ", "i", "s", " ", "g", "h", "p", "_", "1",
       "2", "3", "4", "5", "6", "7", "8", "9", "0", "a", "b", "c", "d", "e", "f", "1", "2",
       "3", "4", "5", "6", "7", "8", "9", "0", "a", "b", "c", "d", "e", "f", "1", "2", "3",
       "4", "5", "6", "7", "8", " ", "a", "n", "d", " ", "k", "e", "y", " ", "i", "s", " ",
       "s", "k", "-", "1", "2", "3", "4", "5", "6", "7", "8", "9", "0", "a", "b", "c", "d",
       "e", "f", "1", "2", "3", "4", "5", "6", "7", "8", "9", "0", "a", "b", "c", "d", "e",
       "f", "1", "2", "3", "4", "5", "6", "7", "8", "9", "0", "a", "b", "c", "d", "e", "f" >>

\* Up to MaxPieces pieces one after the other, and the message of the test
CombinedMessages ==
    { Join(ps) : ps \in UNION { [1..k -> Pieces] : k \in 0..MaxPieces } }
    \cup { both_secrets_message }

InitSanitize ==
    /\ TestSession
    /\ \/ \E parts \in SanitizeInputs :
             call = [op |-> "input", message |-> BuildMessage(parts), parts |-> parts]
       \/ \E m \in CombinedMessages :
             call = [op |-> "input", message |-> m]

\* client._sanitize_message(message)
SanitizeMessage ==
    /\ pc = "constructed"
    /\ call.op = "input"
    /\ call' = [call EXCEPT !.op = "_sanitize_message"]
    /\ ret' = PyStr(_sanitize_message(call.message))
    /\ raised' = NoException
    /\ log' = << >>
    /\ stdout' = << >>
    /\ sent' = << >>
    /\ UNCHANGED << MISTRAL_AVAILABLE, environ, self, pc, ctor_call_count,
                    ctor_call_args, chat_call_count, chat_call_args >>

\* client._sanitize_message(sanitized): the method applied to its own result
SanitizeAgain ==
    /\ pc = "constructed"
    /\ call.op = "_sanitize_message"
    /\ "of" \notin DOMAIN call
    /\ call' = [op |-> "_sanitize_message", message |-> ret.v, of |-> call.message]
    /\ ret' = PyStr(_sanitize_message(ret.v))
    /\ raised' = NoException
    /\ log' = << >>
    /\ stdout' = << >>
    /\ sent' = << >>
    /\ UNCHANGED << MISTRAL_AVAILABLE, environ, self, pc, ctor_call_count,
                    ctor_call_args, chat_call_count, chat_call_args >>

NextSanitize ==
    \/ SanitizeMessage
    \/ SanitizeAgain

SpecSanitize == InitSanitize /\ [][NextSanitize]_vars


-----------------------------------------------------------------------------
(* Properties of construction and of the token gate, checked under Spec *)

\* The accepted prefixes, written out
AcceptedPrefixSet ==
    { <<"g", "h", "p", "_">>, <<"g", "h", "o", "_">>,
      <<"g", "h", "u", "_">>, <<"g", "h", "s", "_">> }

\* A string of more than 10 characters whose first four are an accepted prefix
AcceptedByGate(x) ==
    /\ x.t = "str"
    /\ Len(x.v) > 10
    /\ SubSeq(x.v, 1, 4) \in AcceptedPrefixSet

AfterInit == call.op = "__init__"

\* C3: _validate_token_format returns True exactly for a string of length > 10
\* that starts (case-sensitively, untrimmed) with 'ghp_', 'gho_', 'ghu_' or
\* 'ghs_'; for every other input, None and non-strings included, it returns
\* False, and it never raises.
C3_ValidateIffPrefixAndLength ==
    call.op = "_validate_token_format" =>
        /\ raised = NoException
        /\ ret = PyBool(AcceptedByGate(call.token))

\* C3 witness: an accepted prefix with 11 characters in all is accepted
C3_Witness ==
    /\ call.op = "_validate_token_format"
    /\ call.token = PyStr(<<"g", "h", "u", "_">> \o Rep("1", 7))
    /\ ret = PyBool(TRUE)

\* C4 as stated: the argument wins when non-empty, the environment is used only
\* when the argument is absent or empty, and construction fails with
\* MissingCredential exactly when neither is a non-empty string.
C4_Original ==
    AfterInit =>
        /\ HasAttr(self, "github_token") =>
              self.github_token = IF Truthy(call.github_token)
                                  THEN call.github_token ELSE environ
        /\ raised = MissingCredential
              <=> (~Truthy(call.github_token) /\ ~Truthy(environ))

\* C4 amended: the same when the mistralai library is available; when it is
\* not, construction fails with ImportError before the credential is resolved,
\* whatever the two sources hold.
C4_PrecedenceWhenAvailable ==
    AfterInit =>
        IF MISTRAL_AVAILABLE
        THEN /\ HasAttr(self, "github_token")
             /\ self.github_token = IF Truthy(call.github_token)
                                    THEN call.github_token ELSE environ
             /\ raised = MissingCredential
                   <=> (~Truthy(call.github_token) /\ ~Truthy(environ))
             /\ (Truthy(call.github_token) /\ ~AcceptedByGate(call.github_token))
                   => raised = InvalidCredentialFormat
        ELSE /\ raised = ImportErrorExc
             /\ ~HasAttr(self, "github_token")

\* C4 witness: an invalid argument is used although the environment holds a
\* valid token
C4_Witness ==
    /\ AfterInit
    /\ MISTRAL_AVAILABLE
    /\ call.github_token = PyStr(S_invalid_token)
    /\ environ = PyStr(S_env_token)
    /\ self.github_token = PyStr(S_invalid_token)
    /\ raised = InvalidCredentialFormat

\* The token __init__ resolves from its argument and the environment
Resolved == IF Truthy(call.github_token) THEN call.github_token ELSE environ

\* C5: construction fails with the first that applies of: import failure,
\* MissingCredential, InvalidCredentialFormat, ConnectionFailure; and
\* MistralClient is called only with a credential the gate accepted.
C5_FailureOrder ==
    /\ AfterInit =>
          IF ~MISTRAL_AVAILABLE THEN raised = ImportErrorExc
          ELSE IF ~Truthy(Resolved) THEN raised = MissingCredential
          ELSE IF ~AcceptedByGate(Resolved) THEN raised = InvalidCredentialFormat
          ELSE IF call.ctor.kind = "raise" THEN raised.type = "ConnectionError"
          ELSE raised = NoException
    /\ ctor_call_count > 0 =>
          \A i \in 1..Len(ctor_call_args) : AcceptedByGate(ctor_call_args[i])
    /\ (AfterInit /\ raised.type \in {"ImportError", "ValueError"}) => ctor_call_count = 0

\* C5 witness: the library is missing and so is the credential; ImportError wins
C5_Witness ==
    /\ AfterInit
    /\ ~MISTRAL_AVAILABLE
    /\ ~Truthy(Resolved)
    /\ raised = ImportErrorExc
    /\ ctor_call_count = 0

\* C6: when MistralClient(...) raises, construction fails with ConnectionError
\* chained to the cause; and after any failed construction the caller holds no
\* object and is_connected, if set at all, is False.
C6_ConnectionFailureAndNoConnectedSession ==
    /\ (AfterInit /\ ctor_call_count > 0 /\ call.ctor.kind = "raise") =>
          /\ raised.type = "ConnectionError"
          /\ raised.cause = call.ctor.exc
          /\ Contains(raised.msg, call.ctor.exc.msg)
    /\ (AfterInit /\ raised # NoException) =>
          /\ pc = "failed"
          /\ HasAttr(self, "is_connected") => ~self.is_connected

\* C6 witness: the handle constructor raised and the flag was set to False
C6_Witness ==
    /\ AfterInit
    /\ call.ctor.kind = "raise"
    /\ raised.type = "ConnectionError"
    /\ HasAttr(self, "is_connected")
    /\ ~self.is_connected
    /\ pc = "failed"

\* C7: a valid resolved credential and a handle constructor that returns give
\* a session with is_connected True, the resolved token stored, and exactly one
\* MistralClient call with that token; so every connected session holds a
\* non-empty credential the gate accepts.
C7_ConnectedHoldsAcceptedCredential ==
    /\ (AfterInit /\ MISTRAL_AVAILABLE /\ AcceptedByGate(Resolved)
           /\ call.ctor.kind = "return") =>
          /\ pc = "constructed"
          /\ self.is_connected
          /\ self.github_token = Resolved
          /\ ctor_call_count = 1
          /\ ctor_call_args = << Resolved >>
    /\ (HasAttr(self, "is_connected") /\ self.is_connected) =>
          /\ Truthy(self.github_token)
          /\ AcceptedByGate(self.github_token)

\* C7 witness: a session connected with the token of the environment
C7_Witness ==
    /\ AfterInit
    /\ call.github_token = None
    /\ pc = "constructed"
    /\ self.is_connected
    /\ self.github_token = PyStr(S_env_token)
    /\ ctor_call_args = << PyStr(S_env_token) >>

-----------------------------------------------------------------------------
(* Properties of send_chat_message, checked under SpecChat *)

AfterSend == call.op = "send_chat_message"

\* The number of whitespace characters a message starts with
LeadingWs(m) ==
    CHOOSE k \in 0..Len(m) :
        /\ \A i \in 1..k : m[i] \in {" ", "\t", "\n", "\r"}
        /\ k < Len(m) => m[k + 1] \notin {" ", "\t", "\n", "\r"}

\* The number of whitespace characters it ends with (0 when it is all whitespace)
TrailingWs(m) ==
    IF LeadingWs(m) = Len(m) THEN 0
    ELSE CHOOSE k \in 0..Len(m) :
        /\ \A i \in 1..k : m[Len(m) + 1 - i] \in {" ", "\t", "\n", "\r"}
        /\ m[Len(m) - k] \notin {" ", "\t", "\n", "\r"}

TrimmedLength(m) == Len(m) - LeadingWs(m) - TrailingWs(m)

Trimmed(m) == SubSeq(m, LeadingWs(m) + 1, Len(m) - TrailingWs(m))

\* The message of the last call passes the two message preconditions
MessageAccepted == TrimmedLength(call.message) \in 1..10000

\* The model argument of the last call, 'mistral-tiny' when it was left out
GivenModel ==
    IF call.model = Omitted
    THEN <<"m", "i", "s", "t", "r", "a", "l", "-", "t", "i", "n", "y">>
    ELSE call.model.v

\* The collaborator failed in the last call: building the user turn raised, the
\* chat call raised, or the response has no first choice
CollaboratorFailed ==
    \/ call.outcome.kind \in {"message_raises", "chat_raises"}
    \/ call.outcome.kind = "response" /\ call.outcome.choices = << >>

\* str(e) of the exception the collaborator's failure produced
FailureText ==
    IF call.outcome.kind = "response"
    THEN <<"l", "i", "s", "t", " ", "i", "n", "d", "e", "x", " ", "o", "u", "t", " ",
           "o", "f", " ", "r", "a", "n", "g", "e">>
    ELSE call.outcome.exc.msg

\* C1: on a connected session, for a message that passes the preconditions,
\* send_chat_message does not raise; when the collaborator fails it returns a
\* failure record whose error contains str(e) and whose model_used is the model
\* it was given.
C1_CollaboratorFailureIsAbsorbed ==
    (AfterSend /\ self.is_connected /\ MessageAccepted) =>
        /\ raised = NoException
        /\ CollaboratorFailed =>
              /\ ret.success = FALSE
              /\ Contains(ret.error, FailureText)
              /\ ret.model_used = GivenModel

\* C1 witness: client.chat raised Exception("API Error") and a failure record
\* came back
C1_Witness ==
    /\ AfterSend
    /\ self.is_connected
    /\ call.outcome = [kind |-> "chat_raises", exc |-> Exc("Exception", S_api_error)]
    /\ raised = NoException
    /\ ret.success = FALSE
    /\ Contains(ret.error, S_api_error)

\* C2: the preconditions are checked in the order connected, non-empty after
\* trimming, trimmed length <= 10,000, and the first violated one decides the
\* error, each error distinct; surrounding whitespace does not count toward
\* the cap, 10,000 is accepted and 10,001 is rejected.
C2_PreconditionOrder ==
    /\ NotConnected # EmptyMessage
    /\ NotConnected # MessageTooLong
    /\ EmptyMessage # MessageTooLong
    /\ AfterSend =>
          raised = IF ~self.is_connected THEN NotConnected
                   ELSE IF TrimmedLength(call.message) = 0 THEN EmptyMessage
                   ELSE IF TrimmedLength(call.message) > 10000 THEN MessageTooLong
                   ELSE NoException

\* C2 witness: 10,000 characters between a leading and a trailing whitespace
\* character are accepted
C2_Witness ==
    /\ AfterSend
    /\ self.is_connected
    /\ Len(call.message) = 10002
    /\ TrimmedLength(call.message) = 10000
    /\ raised = NoException
    /\ ret.success = TRUE

C9_OutboundIsTrimmedOriginal ==
    (AfterSend /\ raised = NoException /\ call.outcome.kind # "message_raises") =>
        chat_call_args =
            << [model |-> GivenModel,
                messages |-> << [role |-> "user", content |-> Trimmed(call.message)] >>] >>

\* C9 witness: the token-like message is logged redacted and sent unredacted
C9_Witness ==
    /\ AfterSend
    /\ call.message = token_like_message
    /\ raised = NoException
    /\ Len(chat_call_args) = 1
    /\ chat_call_args[1].messages[1].content = token_like_message
    /\ Contains(chat_call_args[1].messages[1].content,
                <<"g", "h", "p", "_">> \o Rep("a", 36))
    /\ Contains(log[1].msg, S_redacted_token)
    /\ ~Contains(log[1].msg, <<"g", "h", "p", "_">>)


-----------------------------------------------------------------------------
(* Properties of _sanitize_message, checked under SpecSanitize *)

AfterSanitize == call.op = "_sanitize_message" /\ "parts" \in DOMAIN call

\* The body of the candidate is made of alphanumeric or underscore characters
WordBody == call.parts.ch \in (Lower \cup Upper \cup Digit \cup {"_"})

\* Two lowercase letters, the first 'g', then an underscore
TwoLetterLead ==
    /\ Len(call.parts.lead) = 3
    /\ call.parts.lead[1] = "g"
    /\ call.parts.lead[2] \in Lower
    /\ call.parts.lead[3] = "_"

\* 'gh', one more lowercase letter, then an underscore
GhLetterLead ==
    /\ Len(call.parts.lead) = 4
    /\ call.parts.lead[1] = "g"
    /\ call.parts.lead[2] = "h"
    /\ call.parts.lead[3] \in Lower
    /\ call.parts.lead[4] = "_"

Redacted == call.parts.pre \o S_redacted_token \o call.parts.post

\* C10 as stated: the token pass replaces a match of "two lowercase letters, the
\* first 'g', an underscore, 36 or more alphanumeric/underscore characters" by
\* '[REDACTED_TOKEN]' and leaves text that does not match it untouched.
C10_Original ==
    AfterSanitize =>
        TokenPass(call.message) =
            IF TwoLetterLead /\ WordBody /\ call.parts.n >= 36
            THEN Redacted ELSE call.message

\* C10 amended: the token pass replaces a match of "'gh', one further lowercase
\* letter, an underscore, 36 or more alphanumeric/underscore characters" by
\* '[REDACTED_TOKEN]' and leaves text that does not match it (fewer than 36
\* trailing characters, another prefix) untouched.
C10_TokenPassRedactsGhTokens ==
    AfterSanitize =>
        /\ TokenPass(call.message) =
              IF GhLetterLead /\ WordBody /\ call.parts.n >= 36
              THEN Redacted ELSE call.message
        /\ call.parts.lead[1] # "s" => ret = PyStr(TokenPass(call.message))

\* C10 witness: 'ghz_' and exactly 36 underscores, next to a letter, are
\* replaced
C10_Witness ==
    /\ AfterSanitize
    /\ call.parts = [pre |-> <<"x">>, lead |-> <<"g", "h", "z", "_">>, ch |-> "_",
                     n |-> 36, post |-> <<"-", "y">>]
    /\ ret = PyStr(<<"x">> \o S_redacted_token \o <<"-", "y">>)

-----------------------------------------------------------------------------
(* Properties of _sanitize_message as a whole, checked under SpecSanitize *)

\* _sanitize_message has been applied, to any of the inputs
Sanitized == call.op = "_sanitize_message"

\* 'gh', a lowercase letter and an underscore stand at i
TokenAt(s, i) ==
    /\ i + 3 <= Len(s)
    /\ s[i] = "g" /\ s[i + 1] = "h" /\ s[i + 2] \in Lower /\ s[i + 3] = "_"

\* 'sk-' stands at i
KeyAt(s, i) ==
    /\ i + 2 <= Len(s)
    /\ s[i] = "s" /\ s[i + 1] = "k" /\ s[i + 2] = "-"

\* The last index e such that s[i..e] is made of characters of cls and cannot
\* be extended
BodyEnd(s, i, cls) ==
    CHOOSE e \in (i - 1)..Len(s) :
        /\ \A j \in i..e : s[j] \in cls
        /\ e = Len(s) \/ s[e + 1] \notin cls

\* The last index of the body of a candidate of the kind that starts at i
SecretEnd(s, i, kind) ==
    IF kind = "token" THEN BodyEnd(s, i + 4, WordChars) ELSE BodyEnd(s, i + 3, Alnum)

\* A secret of the kind starts at i: the prefix, then a body of the minimum
\* length at least
SecretAt(s, i, kind) ==
    IF kind = "token"
    THEN TokenAt(s, i) /\ SecretEnd(s, i, kind) - (i + 3) >= 36
    ELSE KeyAt(s, i) /\ SecretEnd(s, i, kind) - (i + 2) >= 48

\* One pass read from i on: the text before the first secret of the kind is
\* copied, the marker is written in place of the secret, and reading resumes
\* after it.
RECURSIVE RedactFrom(_, _, _)
RedactFrom(s, i, kind) ==
    LET starts == { p \in i..Len(s) : SecretAt(s, p, kind) }
    IN  IF starts = {} THEN SubSeq(s, i, Len(s))
        ELSE LET p == CHOOSE q \in starts : \A r \in starts : q <= r
             IN  SubSeq(s, i, p - 1)
                    \o (IF kind = "token" THEN S_redacted_token ELSE S_redacted_api_key)
                    \o RedactFrom(s, SecretEnd(s, p, kind) + 1, kind)

\* test_message of test_message_sanitization, both secrets replaced
both_secrets_sanitized ==
    << "M", "y", " ", "t", "o", "k", "e", "n", " ", "i", "s", " ", "[", "R", "E", "D", "A",
       "C", "T", "E", "D", "_", "T", "O", "K", "E", "N", "]", " ", "a", "n", "d", " ", "k",
       "e", "y", " ", "i", "s", " ", "[", "R", "E", "D", "A", "C", "T", "E", "D", "_", "A",
       "P", "I", "_", "K", "E", "Y", "]" >>

\* C11: _sanitize_message is the token pass followed by the key pass on the
\* string the token pass produced: every left-to-right, non-overlapping match of
\* "'sk-' and 48 or more alphanumeric characters" (underscores are not part of
\* it) becomes '[REDACTED_API_KEY]', a marker different from '[REDACTED_TOKEN]';
\* the method returns for every string and never raises.
C11_TokenPassThenKeyPass ==
    Sanitized =>
        /\ raised = NoException
        /\ ret = PyStr(RedactFrom(RedactFrom(call.message, 1, "token"), 1, "key"))
        /\ S_redacted_api_key # S_redacted_token
        /\ (AfterSanitize /\ call.parts.lead = <<"s", "k", "-">>) =>
              ret = PyStr(IF call.parts.ch \in Alnum /\ call.parts.n >= 48
                          THEN call.parts.pre \o S_redacted_api_key \o call.parts.post
                          ELSE call.message)

\* C11 witness: 'sk-' with 47 digits runs into a token; the token goes first,
\* and what is left of the key candidate is too short to be replaced
C11_Witness ==
    /\ Sanitized
    /\ call.message = <<"s", "k", "-">> \o Rep("9", 47)
                          \o <<"g", "h", "p", "_">> \o Rep("a", 36)
    /\ ret = PyStr(<<"s", "k", "-">> \o Rep("9", 47) \o S_redacted_token)

\* C12: sanitize(sanitize(x)) = sanitize(x): applied to its own result the
\* method changes nothing, the markers and the text next to them never forming
\* a new match.
C12_SanitizeIdempotent ==
    (Sanitized /\ "of" \in DOMAIN call) => ret = PyStr(call.message)

\* C12 witness: a message whose two secrets were replaced comes back unchanged
\* from the second application
C12_Witness ==
    /\ Sanitized
    /\ "of" \in DOMAIN call
    /\ call.of = both_secrets_message
    /\ call.message = both_secrets_sanitized
    /\ ret = PyStr(both_secrets_sanitized)

\* A substring of s is a token: 'gh', a lowercase letter, '_' and 36 characters
\* of the body class
HasTokenMatch(s) ==
    \E i \in 1..Len(s) :
        /\ TokenAt(s, i)
        /\ i + 3 + 36 <= Len(s)
        /\ \A k \in 1..36 : s[i + 3 + k] \in WordChars

\* A substring of s is a key: 'sk-' and 48 alphanumeric characters
HasKeyMatch(s) ==
    \E i \in 1..Len(s) :
        /\ KeyAt(s, i)
        /\ i + 2 + 48 <= Len(s)
        /\ \A k \in 1..48 : s[i + 2 + k] \in Alnum

\* C13: no substring of the result matches the token pattern or the key pattern;
\* 'My token is ghp_<36+> and key is sk-<48+>' comes out with both markers and
\* with neither 'ghp_' nor 'sk-'.
C13_NoSecretInResult ==
    Sanitized =>
        /\ ~HasTokenMatch(ret.v)
        /\ ~HasKeyMatch(ret.v)
        /\ call.message = both_secrets_message =>
              /\ ret = PyStr(both_secrets_sanitized)
              /\ Contains(ret.v, S_redacted_token)
              /\ Contains(ret.v, S_redacted_api_key)
              /\ ~Contains(ret.v, <<"g", "h", "p", "_">>)
              /\ ~Contains(ret.v, <<"s", "k", "-">>)

\* C13 witness: the first application to the message that holds both secrets
C13_Witness ==
    /\ Sanitized
    /\ "of" \notin DOMAIN call
    /\ call.message = both_secrets_message
    /\ HasTokenMatch(call.message)
    /\ HasKeyMatch(call.message)
    /\ ret = PyStr(both_secrets_sanitized)

-----------------------------------------------------------------------------
(* Properties of the other session methods, checked under SpecOps *)

ModelIdTiny ==
    << "m", "i", "s", "t", "r", "a", "l", "-", "t", "i", "n", "y" >>

ModelIdSmall ==
    << "m", "i", "s", "t", "r", "a", "l", "-", "s", "m", "a", "l", "l" >>

ModelIdMedium ==
    << "m", "i", "s", "t", "r", "a", "l", "-", "m", "e", "d", "i", "u", "m" >>

ModelIdLarge ==
    << "m", "i", "s", "t", "r", "a", "l", "-", "l", "a", "r", "g", "e" >>

HelloText ==
    << "H", "e", "l", "l", "o" >>

SendingHead ==
    << "S", "e", "n", "d", "i", "n", "g", " ", "m", "e", "s", "s", "a", "g", "e", " ", "t",
       "o", " ", "m", "o", "d", "e", "l", " ", "'" >>

SendingMid ==
    << "'", ":", " " >>

SendingTail ==
    << ".", ".", "." >>

\* The call a health check makes of the collaborator: 'Hello' as the one user
\* message, for the default model
HelloCall ==
    [model |-> ModelIdTiny, messages |-> << [role |-> "user", content |-> HelloText] >>]

\* C14: health_check returns True exactly when send_chat_message('Hello', with
\* the default model) returns a record whose success is true, and False
\* otherwise; it never raises: on a session that is not connected the
\* ConnectionError of send_chat_message is caught and the result is False.
C14_HealthCheckIffHelloSucceeds ==
    call.op = "health_check" =>
        LET r == send_chat_message(self, HelloText, ModelIdTiny, call.outcome)
        IN  /\ raised = NoException
            /\ ret = PyBool(r.raised = NoException /\ r.ret.success)
            /\ ret = PyBool(/\ self.is_connected
                            /\ call.outcome.kind = "response"
                            /\ Len(call.outcome.choices) > 0)
            /\ ret = PyBool(TRUE) => chat_call_args = << HelloCall >>

\* C14 witness: on a disconnected session the health check returns False
\* without raising
C14_Witness ==
    /\ call.op = "health_check"
    /\ ~self.is_connected
    /\ ret = PyBool(FALSE)
    /\ raised = NoException
    /\ Len(log) = 1 /\ log[1].level = "ERROR"

\* C15: get_available_models returns 'mistral-tiny', 'mistral-small',
\* 'mistral-medium', 'mistral-large', in this order, whatever the state of the
\* session (connected or not, before or after chat calls); it makes no call of
\* the collaborator and changes nothing of the session.
C15_ModelsAreAFixedList ==
    /\ [](call.op = "get_available_models" =>
            /\ ret = << ModelIdTiny, ModelIdSmall, ModelIdMedium, ModelIdLarge >>
            /\ raised = NoException)
    /\ [][call'.op = "get_available_models" =>
            UNCHANGED << self, chat_call_count, chat_call_args, ctor_call_count,
                         ctor_call_args, environ, MISTRAL_AVAILABLE >>]_vars

\* C15 witness: the list is returned on a disconnected session that has made
\* chat calls
C15_Witness ==
    /\ call.op = "get_available_models"
    /\ ~self.is_connected
    /\ chat_call_count > 0
    /\ ret = << ModelIdTiny, ModelIdSmall, ModelIdMedium, ModelIdLarge >>

\* C17 as stated: an invocation of send_chat_message calls the collaborator once
\* when the preconditions pass and not at all when one fails.
C17_Original ==
    [][call'.op = "send_chat_message" =>
          chat_call_count' - chat_call_count =
              IF self'.is_connected /\ MessageAccepted' THEN 1 ELSE 0]_vars

\* C17 amended: an invocation of send_chat_message calls the collaborator at
\* most once: not at all when a precondition fails or when the user message
\* cannot be built, once otherwise, a failed call not being repeated; the count
\* of calls grows by that much.
C17_AtMostOneCallPerInvocation ==
    [][call'.op = "send_chat_message" =>
          chat_call_count' - chat_call_count =
              IF /\ self'.is_connected
                 /\ MessageAccepted'
                 /\ call'.outcome.kind # "message_raises"
              THEN 1 ELSE 0]_vars

\* C17 witness: the one call of an invocation raised, and a failure record came
\* back with the count at one
C17_Witness ==
    /\ AfterSend
    /\ call.outcome.kind = "chat_raises"
    /\ ret # None /\ ret.success = FALSE
    /\ chat_call_count = 1

\* The log line of an invocation that passed the preconditions
SendingLine(excerpt) ==
    SendingHead \o GivenModel \o SendingMid \o excerpt \o SendingTail

\* The first 100 characters of s
First100(s) == SubSeq(s, 1, IF Len(s) < 100 THEN Len(s) ELSE 100)

\* Both passes, read character by character
Redaction(s) == RedactFrom(RedactFrom(s, 1, "token"), 1, "key")

\* An invocation went past the preconditions
SendLogged == AfterSend /\ self.is_connected /\ MessageAccepted

\* C19 as stated: the log line holds the model identifier and the first 100
\* characters of the sanitized form of the trimmed message.
C19_Original ==
    SendLogged =>
        /\ Len(log) >= 1
        /\ log[1].msg = SendingLine(First100(Redaction(Trimmed(call.message))))

\* C19 amended: the log line holds the model identifier and the first 100
\* characters of the sanitized form of the message as it was passed (not
\* trimmed); the whole message is sanitized before it is cut, so the excerpt
\* holds no match of either pattern.
C19_LogExcerptOfSanitizedMessage ==
    SendLogged =>
        /\ Len(log) >= 1
        /\ log[1].level = "INFO"
        /\ log[1].msg = SendingLine(First100(Redaction(call.message)))
        /\ ~HasTokenMatch(log[1].msg)
        /\ ~HasKeyMatch(log[1].msg)

\* C19 witness: a token that starts before the 100th character: the excerpt
\* ends inside the marker
C19_Witness ==
    /\ SendLogged
    /\ call.message = late_token_message
    /\ Len(log) >= 1
    /\ Contains(log[1].msg,
                Rep("m", 90) \o <<" ", "[", "R", "E", "D", "A", "C", "T", "E", "D">>
                    \o SendingTail)

-----------------------------------------------------------------------------
(* Properties of main, checked under SpecMain *)

\* GITHUB_TOKEN is not set, or set to the empty string
TokenMissing == environ = None \/ environ = PyStr(<< >>)

\* main cannot build its session
StartFails ==
    \/ TokenMissing
    \/ ~MISTRAL_AVAILABLE
    \/ ~AcceptedByGate(environ)
    \/ call.ctor.kind = "raise"

\* C16: main returns 1 when GITHUB_TOKEN is missing (before it builds a session,
\* so also when the library is missing), when the token fails the format gate,
\* when the construction of the session fails on the connection, and when the
\* library cannot be imported; when the session is built, main goes on to the
\* yes/no prompt whatever the health check and the demonstration gave, and
\* returns 0 once the prompt, and the interactive session if any, is over.
C16_MainExitCode ==
    /\ call.op = "main" =>
          /\ StartFails <=> (pc = "exited" /\ ret = PyInt(1))
          /\ ~StartFails <=> (pc = "main_prompt" /\ ret = None)
          /\ TokenMissing =>
                /\ ctor_call_count = 0
                /\ self = [class |-> "MistralGitHubClient"]
                /\ stdout[2] = [line |-> "GITHUB_TOKEN environment variable not set"]
    /\ (call.op = "main_prompt" /\ pc = "exited" /\ call.event.kind # "EOFError") =>
          ret = PyInt(0)
    /\ (call.op = "interactive_line" /\ pc = "exited") => ret = PyInt(0)
    /\ pc = "exited" <=> ret \in { PyInt(0), PyInt(1) }

\* C16 witness: with no GITHUB_TOKEN and no library, main returns 1 and has
\* built nothing
C16_Witness ==
    /\ call.op = "main"
    /\ pc = "exited"
    /\ environ = None
    /\ ~MISTRAL_AVAILABLE
    /\ ret = PyInt(1)
    /\ ctor_call_count = 0

-----------------------------------------------------------------------------
(* Properties of the session over all its methods, checked under SpecSession *)

\* The methods of the session, interactive_mode by its start and by each pass
\* of its loop
SessionOps ==
    { "send_chat_message", "health_check", "get_available_models",
      "demonstrate_interaction", "interactive_mode", "interactive_line" }

NotConnectedText ==
    << "N", "o", "t", " ", "c", "o", "n", "n", "e", "c", "t", "e", "d", " ", "t", "o", " ",
       "M", "i", "s", "t", "r", "a", "l", " ", "A", "I" >>

\* A line printed or logged by the last operation reports the ConnectionError
\* of a session that is not connected
NotConnectedReported ==
    \/ \E i \in 1..Len(stdout) :
          "text" \in DOMAIN stdout[i] /\ Contains(stdout[i].text, NotConnectedText)
    \/ \E i \in 1..Len(log) :
          "msg" \in DOMAIN log[i] /\ Contains(log[i].msg, NotConnectedText)

\* C18: no method of the session writes the connected flag or the credential:
\* send_chat_message, health_check, get_available_models,
\* demonstrate_interaction and interactive_mode leave both as construction set
\* them, so that a session built successfully does not fail with "Not
\* connected" afterwards, whatever methods are called in whatever order.
C18_FlagAndCredentialWrittenOnce ==
    /\ [][call'.op \in SessionOps => self' = self]_vars
    /\ [][(call'.op \in SessionOps /\ self.is_connected) =>
             /\ raised'.type # "ConnectionError"
             /\ ~NotConnectedReported']_vars

\* '1234567890abcdef', of which the token of the tests is made
HexRun ==
    <<"1", "2", "3", "4", "5", "6", "7", "8", "9", "0", "a", "b", "c", "d", "e", "f">>

\* C18 witness: after chat calls and a demonstration the flag and the credential
\* are those of construction
C18_Witness ==
    /\ call.op = "demonstrate_interaction"
    /\ chat_call_count > 3
    /\ self.is_connected
    /\ self.github_token = PyStr(<<"g", "h", "p", "_">> \o HexRun \o HexRun \o SubSeq(HexRun, 1, 8))

-----------------------------------------------------------------------------
(* Properties of interactive_mode, checked under SpecInteractive *)

\* The line typed is, once trimmed and whatever the case of its letters, `word`
\* (given in lowercase letters)
TypedIs(word) ==
    LET t == Trimmed(call.event.text)
    IN  /\ Len(t) = Len(word)
        /\ \A i \in 1..Len(t) :
              \/ t[i] = word[i]
              \/ \E k \in 1..26 : t[i] = UpperSeq[k] /\ word[i] = LowerSeq[k]

TypedQuit ==
    \/ TypedIs(<<"q", "u", "i", "t">>)
    \/ TypedIs(<<"e", "x", "i", "t">>)
    \/ TypedIs(<<"q">>)

TypedHelp == TypedIs(<<"h", "e", "l", "p">>)
TypedModels == TypedIs(<<"m", "o", "d", "e", "l", "s">>)
TypedHealth == TypedIs(<<"h", "e", "a", "l", "t", "h">>)
TypedNothing == Trimmed(call.event.text) = << >>

\* A pass of the loop of interactive_mode has read a line
AfterLine == call.op = "interactive_line" /\ call.event.kind = "line"

\* C20: interactive_mode trims each line and reads it without regard to case:
\* 'quit', 'exit' and 'q' end the session; 'help' and 'models' print and invoke
\* nothing; 'health' does one health check (one send_chat_message('Hello'));
\* an empty line prints a prompt and invokes nothing; any other line is given to
\* send_chat_message once, trimmed; no command word is sent as a chat message,
\* and the collaborator is called at most as often as send_chat_message is
\* invoked.
C20_InteractiveDispatch ==
    /\ [](AfterLine =>
            /\ TypedQuit <=> pc # "interactive"
            /\ TypedQuit => sent = << >> /\ stdout = << [line |-> "Goodbye!"] >>
            /\ (TypedHelp \/ TypedModels) => sent = << >> /\ stdout # << >>
            /\ TypedHealth => sent = << [message |-> HelloText, model |-> ModelIdTiny] >>
            /\ TypedNothing =>
                  /\ sent = << >>
                  /\ stdout = << [line |-> "Please enter a message or command."] >>
            /\ ~(TypedQuit \/ TypedHelp \/ TypedModels \/ TypedHealth \/ TypedNothing) =>
                  sent = << [message |-> Trimmed(call.event.text),
                             model |-> ModelIdTiny] >>
            /\ raised = NoException)
    /\ [][call'.op = "interactive_line" =>
            /\ chat_call_count' - chat_call_count \in 0..Len(sent')
            /\ self' = self]_vars

\* C20 witness: 'HEALTH' followed by a tab does one health check and the loop
\* goes on
C20_Witness ==
    /\ AfterLine
    /\ call.event.text = <<"H", "E", "A", "L", "T", "H", "\t">>
    /\ sent = << [message |-> HelloText, model |-> ModelIdTiny] >>
    /\ chat_call_count = 1
    /\ pc = "interactive"

-----------------------------------------------------------------------------
(* How the loop of interactive_mode ends, checked under SpecInteractive *)

\* A pass of the loop has run, on a line or on an exception of input()
AfterRead == call.op = "interactive_line"

\* input() was interrupted from the keyboard
Interrupted == call.event.kind = "KeyboardInterrupt"

\* input() met the end of the input
EndOfInput == call.event.kind = "EOFError"

\* The line read was 'quit', 'exit' or 'q'
QuitRead == call.event.kind = "line" /\ TypedQuit

\* The pass printed a failure: the error of a failure record, or an exception
\* caught in the loop
FailureShown ==
    \E i \in 1..Len(stdout) : stdout[i].line \in {"Error", "Unexpected error"}

\* C21: interactive_mode leaves its loop in the pass that reads 'quit', 'exit'
\* or 'q' or that is interrupted from the keyboard, and in no other: a pass that
\* shows a failure record or an exception it caught, the end of the input
\* included, raises nothing and goes on to the next read, so the loop ends if
\* and only if a quit command or an interrupt arrives.
C21_LoopEndsOnlyOnQuitOrInterrupt ==
    /\ [](AfterRead =>
            /\ pc = "interactive" <=> ~(Interrupted \/ QuitRead)
            /\ FailureShown => pc = "interactive"
            /\ EndOfInput =>
                  /\ Len(stdout) = 1
                  /\ stdout[1].line = "Unexpected error"
                  /\ sent = << >>
            /\ ret = None
            /\ raised = NoException)
    /\ [][pc = "interactive" /\ pc' # "interactive" =>
            /\ call'.op = "interactive_line"
            /\ pc' = "constructed"
            /\ Interrupted' \/ QuitRead']_vars

\* C21 witness: the end of the input is reported and the loop reads again
C21_Witness ==
    /\ AfterRead
    /\ EndOfInput
    /\ FailureShown
    /\ pc = "interactive"

=============================================================================
